---- MODULE Spec2Model ----
(***************************************************************************)
(* Two-pass spam detector (utils/two_pass_detector.py).                    *)
(*                                                                         *)
(* Conventions of the model:                                               *)
(*   - a Python str is a sequence of one-character strings;                *)
(*   - a float confidence is an integer number of hundredths (0.95 = 95);  *)
(*   - a float ratio a / b is kept as the pair [num |-> a, den |-> b] and  *)
(*     compared by cross-multiplication;                                   *)
(*   - a Python / JSON value of dynamic type is a tagged record (Val);     *)
(*   - an e-mail body is given by what BeautifulSoup parses out of it:     *)
(*     its anchors, its images with their width / height attributes, its   *)
(*     extracted plain text and the length of the raw string.              *)
(***************************************************************************)
EXTENDS Integers, Sequences, FiniteSets, Bags, TLC

VARIABLES
    openai_client,   \* self.openai_client: "none" (None) or "client"
    optimized_prompt, \* app["optimized_prompt"]: the prompt detect is called with
    stats,           \* self.stats: [total, fast_rules, gpt_calls]
    inflight,        \* bag of detect calls suspended at the completion await
    last,            \* the detect call that finished last, with its outcome
    hist,            \* how many detect calls returned / raised / were cancelled,
                     \* and how many verdicts were returned by method
    requests,        \* completion requests submitted to the client so far
    probe,           \* a feature record handed directly to apply_fast_rules
    report,          \* the dict get_stats returned, when get_stats was the
                     \* operation performed last on the detector
    extraction,      \* an input handed directly to extract_features, twice
    web              \* the webhook application: environment, app state,
                     \* idempotency cache, requests being served, effects

vars == <<openai_client, optimized_prompt, stats, inflight, last, hist, requests, probe, report, extraction, web>>

\* ------------------------------------------------------------------ bounds

MaxCalls == 3        \* detect calls started in one run
MaxInFlight == 2     \* detect calls suspended at the await at the same time
MaxRequests == 2     \* requests the webhook application receives in one run

\* ------------------------------------------------------------- Python str

UpperChars == <<"A", "B", "C", "D", "E", "F", "G", "H", "I", "J", "K", "L", "M",
                "N", "O", "P", "Q", "R", "S", "T", "U", "V", "W", "X", "Y", "Z",
                "Á", "É", "Í", "Ó", "Ú", "Ç", "Ã", "Õ">>
LowerChars == <<"a", "b", "c", "d", "e", "f", "g", "h", "i", "j", "k", "l", "m",
                "n", "o", "p", "q", "r", "s", "t", "u", "v", "w", "x", "y", "z",
                "á", "é", "í", "ó", "ú", "ç", "ã", "õ">>

IsUpper(c) == \E i \in 1..Len(UpperChars) : UpperChars[i] = c

LowerChar(c) ==
    IF IsUpper(c)
    THEN LowerChars[CHOOSE i \in 1..Len(UpperChars) : UpperChars[i] = c]
    ELSE c

\* str.lower()
Lower(s) == [i \in 1..Len(s) |-> LowerChar(s[i])]

\* needle in hay
Contains(hay, needle) ==
    \E i \in 0..(Len(hay) - Len(needle)) :
        SubSeq(hay, i + 1, i + Len(needle)) = needle

RECURSIVE CountIf(_, _)
CountUpper(s) == CountIf(s, 1)
CountIf(s, i) ==
    IF i > Len(s) THEN 0
    ELSE (IF IsUpper(s[i]) THEN 1 ELSE 0) + CountIf(s, i + 1)

RECURSIVE CountChar(_, _, _)
CountChar(s, c, i) ==
    IF i > Len(s) THEN 0
    ELSE (IF s[i] = c THEN 1 ELSE 0) + CountChar(s, c, i + 1)

\* ------------------------------------------------- int(re.sub(r'[^\d]', ...))

\* An attribute value is run-length encoded: a sequence of <<char, count>>.
DigitChars == {"0", "1", "2", "3", "4", "5", "6", "7", "8", "9"}

RECURSIVE StripNonDigits(_)
StripNonDigits(runs) ==
    IF runs = <<>> THEN <<>>
    ELSE IF Head(runs)[1] \in DigitChars /\ Head(runs)[2] > 0
         THEN <<Head(runs)>> \o StripNonDigits(Tail(runs))
         ELSE StripNonDigits(Tail(runs))

RECURSIVE DigitCount(_)
DigitCount(runs) ==
    IF runs = <<>> THEN 0 ELSE Head(runs)[2] + DigitCount(Tail(runs))

\* CPython's limit on the digits int() converts (sys.int_info.default_max_str_digits)
MaxStrDigits == 4300

\* int(digits) raises ValueError
IntRaises(digits) == DigitCount(digits) > MaxStrDigits

\* int(digits) <= 1, for a non-empty string of digits: every digit but the
\* last is 0 and the last is 0 or 1
IntLeOne(digits) ==
    LET n == Len(digits)
    IN  /\ \A i \in 1..(n - 1) : digits[i][1] = "0"
        /\ \/ digits[n][1] = "0"
           \/ digits[n][1] = "1" /\ digits[n][2] = 1

\* re.sub(r'[^\d]', '', str(value)) or '0'
DimDigits(attr) ==
    LET d == StripNonDigits(attr) IN IF d = <<>> THEN <<<<"0", 1>>>> ELSE d

\* img.get('width', '0'): the attribute, '0' when the image has none
AttrOr0(attr) == IF attr.present THEN attr.value ELSE <<<<"0", 1>>>>

\* ------------------------------------------------------- extracted text

\* The extracted plain text is a sequence of runs [s |-> chunk, n |-> copies]:
\* the chunks, each repeated n times, concatenated.
RECURSIVE StrLen(_)
StrLen(runs) ==
    IF runs = <<>> THEN 0
    ELSE Len(Head(runs).s) * Head(runs).n + StrLen(Tail(runs))

RECURSIVE Repeat(_, _)
Repeat(s, n) == IF n = 0 THEN <<>> ELSE s \o Repeat(s, n - 1)

\* The characters of the text with every run cut to at most `cap` copies. A
\* window of m <= cap characters can neither cover more than m copies of one
\* chunk nor reach across a whole run that was cut, so the cut text has
\* the same substrings of length <= cap as the text itself.
RECURSIVE Expand(_, _)
Expand(runs, cap) ==
    IF runs = <<>> THEN <<>>
    ELSE Repeat(Head(runs).s, IF Head(runs).n < cap THEN Head(runs).n ELSE cap)
             \o Expand(Tail(runs), cap)

\* text[:k] without the cut
TakeAll(runs, k) == runs

\* text[:k]
RECURSIVE Take(_, _)
Take(runs, k) ==
    IF runs = <<>> \/ k <= 0 THEN <<>>
    ELSE LET h == Head(runs)
             len == Len(h.s) * h.n
         IN  IF len <= k THEN <<h>> \o Take(Tail(runs), k - len)
             ELSE LET whole == k \div Len(h.s)
                      part == k % Len(h.s)
                  IN  (IF whole > 0 THEN <<[s |-> h.s, n |-> whole]>> ELSE <<>>)
                      \o (IF part > 0
                          THEN <<[s |-> SubSeq(h.s, 1, part), n |-> 1]>>
                          ELSE <<>>)

RECURSIVE SumUpper(_)
SumUpper(runs) ==
    IF runs = <<>> THEN 0
    ELSE CountUpper(Head(runs).s) * Head(runs).n + SumUpper(Tail(runs))

RECURSIVE SumChar(_, _)
SumChar(runs, c) ==
    IF runs = <<>> THEN 0
    ELSE CountChar(Head(runs).s, c, 1) * Head(runs).n + SumChar(Tail(runs), c)

spam_keywords ==
    <<<<"g", "r", "á", "t", "i", "s">>,
      <<"g", "r", "a", "t", "i", "s">>,
      <<"g", "r", "a", "t", "u", "i", "t", "o">>,
      <<"f", "r", "e", "e">>,
      <<"c", "l", "i", "q", "u", "e">>,
      <<"c", "l", "i", "c", "k">>,
      <<"u", "r", "g", "e", "n", "t", "e">>,
      <<"u", "r", "g", "e", "n", "t">>,
      <<"d", "e", "s", "c", "o", "n", "t", "o">>,
      <<"p", "r", "o", "m", "o", "ç", "ã", "o">>,
      <<"o", "f", "e", "r", "t", "a">>,
      <<"g", "a", "n", "h", "e">>,
      <<"p", "a", "r", "a", "b", "é", "n", "s">>,
      <<"c", "o", "n", "g", "r", "a", "t", "u", "l", "a", "t", "i", "o", "n", "s">>,
      <<"p", "r", "e", "m", "i", "o">>,
      <<"p", "r", "i", "z", "e">>>>

\* sum(1 for kw in spam_keywords if kw in text_lower)
SpamKeywordCount(text) ==
    Cardinality({k \in 1..Len(spam_keywords) :
        Contains(Lower(Expand(text, Len(spam_keywords[k]))), spam_keywords[k])})

\* ------------------------------------------------------ dynamic values

\* A Python / JSON value: None, a bool, a number (in hundredths), a str
\* (pre \o s: a fixed prefix and a text), or a key that is not in the dict.
PyNone == [tag |-> "none", b |-> FALSE, n |-> 0, pre |-> "", s |-> ""]
Absent == [tag |-> "absent", b |-> FALSE, n |-> 0, pre |-> "", s |-> ""]
Bool(x) == [tag |-> "bool", b |-> x, n |-> 0, pre |-> "", s |-> ""]
Num(x) == [tag |-> "num", b |-> FALSE, n |-> x, pre |-> "", s |-> ""]
Str(x) == [tag |-> "str", b |-> FALSE, n |-> 0, pre |-> "", s |-> x]
Fmt(p, x) == [tag |-> "str", b |-> FALSE, n |-> 0, pre |-> p, s |-> x]

\* Python truthiness of a value (dict.get gives the default for a missing key)
Truthy(v) ==
    \/ v.tag = "bool" /\ v.b
    \/ v.tag = "num" /\ v.n # 0
    \/ v.tag = "str" /\ (v.pre # "" \/ v.s # "")

\* ------------------------------------------------------ extract_features

SumN(groups, Keep(_)) ==
    LET RECURSIVE Sum(_)
        Sum(i) == IF i > Len(groups) THEN 0
                  ELSE (IF Keep(groups[i]) THEN groups[i].n ELSE 0) + Sum(i + 1)
    IN  Sum(1)

\* soup.find_all('a', href=True)
HasHref(a) == a.href

\* len(set(domains)): the hosts re.findall(r'https?://([^/]+)', href) finds
\* first in each href; host "" stands for an href the pattern does not match
UniqueDomains(anchors) ==
    Cardinality({anchors[i].host : i \in {j \in 1..Len(anchors) :
        anchors[j].href /\ anchors[j].n > 0 /\ anchors[j].host # ""}})

\* the loop body of the tracking-pixel count: int() of either dimension raises
DimRaises(img) ==
    \/ IntRaises(DimDigits(AttrOr0(img.width)))
    \/ IntRaises(DimDigits(AttrOr0(img.height)))

\* w <= 1 or h <= 1
IsTrackingPixelEither(img) ==
    \/ IntLeOne(DimDigits(AttrOr0(img.width)))
    \/ IntLeOne(DimDigits(AttrOr0(img.height)))

\* w <= 1 and h <= 1
IsTrackingPixel(img) ==
    /\ IntLeOne(DimDigits(AttrOr0(img.width)))
    /\ IntLeOne(DimDigits(AttrOr0(img.height)))

AnyImg(img) == TRUE

\* extract_features raises (ValueError out of int())
ExtractRaises(body) ==
    \E i \in 1..Len(body.imgs) : body.imgs[i].n > 0 /\ DimRaises(body.imgs[i])

\* the denominator left unguarded
MaxFirst(a, b) == a

\* max(a, b)
Max(a, b) == IF a > b THEN a ELSE b

ExtractFeatures(body, subject) ==
    [url_count |-> SumN(body.anchors, HasHref),
     img_count |-> SumN(body.imgs, AnyImg),
     unique_domains |-> UniqueDomains(body.anchors),
     tracking_pixel_count |-> SumN(body.imgs, IsTrackingPixel),
     html_text_ratio |-> [num |-> body.raw_len, den |-> Max(StrLen(body.text), 1)],
     spam_keyword_count |-> SpamKeywordCount(body.text),
     caps_ratio |-> [num |-> SumUpper(body.text), den |-> Max(StrLen(body.text), 1)],
     exclamation_count |-> SumChar(body.text, "!"),
     subject |-> subject,
     text_preview |-> Take(body.text, 200)]

\* the features of a call that has none (extract_features raised)
NoFeatures ==
    [url_count |-> 0, img_count |-> 0, unique_domains |-> 0,
     tracking_pixel_count |-> 0, html_text_ratio |-> [num |-> 0, den |-> 0],
     spam_keyword_count |-> 0, caps_ratio |-> [num |-> 0, den |-> 0],
     exclamation_count |-> 0, subject |-> <<>>, text_preview |-> <<>>]

\* ------------------------------------------------------ apply_fast_rules

\* num / den > 20
RatioGt20(r) == r.num > 20 * r.den
\* num / den > 0.4
RatioGt04(r) == 10 * r.num > 4 * r.den

\* REGRA 1: 'report domain:' in subject or 'dmarc' in subject
Rule1(f) ==
    LET subject == Lower(f.subject)
    IN  \/ Contains(subject, <<"r", "e", "p", "o", "r", "t", " ", "d", "o", "m", "a", "i", "n", ":">>)
        \/ Contains(subject, <<"d", "m", "a", "r", "c">>)

\* REGRA 2 asking for more than 16 links
Rule2Strict(f) == f.url_count > 16 /\ f.tracking_pixel_count > 2

\* REGRA 2
Rule2(f) == f.url_count > 15 /\ f.tracking_pixel_count > 2

\* REGRA 3
Rule3(f) == f.url_count > 10 /\ f.img_count > 5 /\ f.spam_keyword_count > 3

\* REGRA 4
Rule4(f) ==
    f.url_count = 0 /\ f.spam_keyword_count = 0 /\ f.tracking_pixel_count = 0

\* REGRA 5
Rule5Or(f) == RatioGt20(f.html_text_ratio) \/ f.url_count > 5
Rule5(f) == RatioGt20(f.html_text_ratio) /\ f.url_count > 5

\* REGRA 6
Rule6(f) ==
    LET subject == Lower(f.subject)
    IN  \/ Contains(subject, <<"c", "u", "r", "r", "í", "c", "u", "l", "o">>)
        \/ Contains(subject, <<"c", "u", "r", "r", "i", "c", "u", "l", "o">>)
        \/ Contains(subject, <<"c", "v", " ">>)

\* REGRA 7
Rule7(f) == RatioGt04(f.caps_ratio) /\ StrLen(f.text_preview) > 50

RuleResult(is_spam, confidence, reason) ==
    [is_spam |-> is_spam, confidence |-> confidence, reason |-> Str(reason)]

\* apply_fast_rules with REGRA 2 tested before REGRA 1
ApplyFastRulesSwapped(f) ==
    IF Rule2(f) THEN RuleResult(Bool(TRUE), Num(95), "Alto volume URLs + tracking (regra)")
    ELSE IF Rule1(f) THEN RuleResult(Bool(FALSE), Num(100), "DMARC report (regra)")
    ELSE IF Rule3(f) THEN RuleResult(Bool(TRUE), Num(92), "Marketing agressivo (regra)")
    ELSE IF Rule4(f) THEN RuleResult(Bool(FALSE), Num(90), "Email limpo sem sinais spam (regra)")
    ELSE IF Rule5(f) THEN RuleResult(Bool(TRUE), Num(88), "HTML pesado + URLs (regra)")
    ELSE IF Rule6(f) THEN RuleResult(Bool(TRUE), Num(85), "Currículo não solicitado (regra)")
    ELSE IF Rule7(f) THEN RuleResult(Bool(TRUE), Num(87), "CAPS excessivo (regra)")
    ELSE RuleResult(PyNone, PyNone, "Ambíguo - requer análise GPT")

\* apply_fast_rules with REGRA 6 tested before REGRA 4
ApplyFastRulesCvFirst(f) ==
    IF Rule1(f) THEN RuleResult(Bool(FALSE), Num(100), "DMARC report (regra)")
    ELSE IF Rule2(f) THEN RuleResult(Bool(TRUE), Num(95), "Alto volume URLs + tracking (regra)")
    ELSE IF Rule3(f) THEN RuleResult(Bool(TRUE), Num(92), "Marketing agressivo (regra)")
    ELSE IF Rule6(f) THEN RuleResult(Bool(TRUE), Num(85), "Currículo não solicitado (regra)")
    ELSE IF Rule4(f) THEN RuleResult(Bool(FALSE), Num(90), "Email limpo sem sinais spam (regra)")
    ELSE IF Rule5(f) THEN RuleResult(Bool(TRUE), Num(88), "HTML pesado + URLs (regra)")
    ELSE IF Rule7(f) THEN RuleResult(Bool(TRUE), Num(87), "CAPS excessivo (regra)")
    ELSE RuleResult(PyNone, PyNone, "Ambíguo - requer análise GPT")

ApplyFastRules(f) ==
    IF Rule1(f) THEN RuleResult(Bool(FALSE), Num(100), "DMARC report (regra)")
    ELSE IF Rule2(f) THEN RuleResult(Bool(TRUE), Num(95), "Alto volume URLs + tracking (regra)")
    ELSE IF Rule3(f) THEN RuleResult(Bool(TRUE), Num(92), "Marketing agressivo (regra)")
    ELSE IF Rule4(f) THEN RuleResult(Bool(FALSE), Num(90), "Email limpo sem sinais spam (regra)")
    ELSE IF Rule5(f) THEN RuleResult(Bool(TRUE), Num(88), "HTML pesado + URLs (regra)")
    ELSE IF Rule6(f) THEN RuleResult(Bool(TRUE), Num(85), "Currículo não solicitado (regra)")
    ELSE IF Rule7(f) THEN RuleResult(Bool(TRUE), Num(87), "CAPS excessivo (regra)")
    ELSE RuleResult(PyNone, PyNone, "Ambíguo - requer análise GPT")

\* ------------------------------------------------------- detect_with_gpt

\* the dict a verdict is; a key the dict lacks is Absent
Verdict(is_spam, confidence, reason, category, method, features) ==
    [is_spam |-> is_spam, confidence |-> confidence, reason |-> reason,
     category |-> category, method |-> method, features |-> features]

NoVerdict == Verdict(Absent, Absent, Absent, Absent, Absent, NoFeatures)

\* the missing-client branch flagging the e-mail as spam
FallbackVerdictSpam ==
    Verdict(Bool(TRUE), Num(50), Str("OpenAI não disponível"), Str("unknown"),
            Str("fallback"), NoFeatures)

\* the return of the `if not self.openai_client` branch
FallbackVerdict ==
    Verdict(Bool(FALSE), Num(50), Str("OpenAI não disponível"), Str("unknown"),
            Str("fallback"), NoFeatures)

\* the except branch flagging the e-mail as spam
ErrorVerdictSpam(e) ==
    Verdict(Bool(TRUE), Num(50), Fmt("Erro GPT: ", e), Str("error"),
            Str("error"), NoFeatures)

\* the except branch without the exception's text
ErrorVerdictNoText(e) ==
    Verdict(Bool(FALSE), Num(50), Str("Erro GPT"), Str("error"),
            Str("error"), NoFeatures)

\* the return of the `except Exception as e` branch; e is str(e)
ErrorVerdict(e) ==
    Verdict(Bool(FALSE), Num(50), Fmt("Erro GPT: ", e), Str("error"),
            Str("error"), NoFeatures)

\* What response.choices[0].message.content can be: None, or a text that is
\* a JSON object, another JSON value, or no JSON at all, wrapped in a
\* Markdown code fence or not.
\* if result_text.startswith('```'): result_text = re.sub(<the fence>, '', ...)
StripFence(content) == [content EXCEPT !.fenced = FALSE]

\* str(e) of what lines 227-234 raise on a content, "" when they raise nothing:
\*   None.startswith            AttributeError
\*   json.loads(no JSON)        JSONDecodeError
\*   result['method'] = 'gpt'   TypeError, result being no dict
ParseError(content) ==
    CASE content.kind = "none" -> "'NoneType' object has no attribute 'startswith'"
      [] content.kind = "invalid" \/ StripFence(content).fenced ->
             "Expecting value: line 1 column 1 (char 0)"
      [] content.kind = "nonobject" -> "object does not support item assignment"
      [] OTHER -> ""

\* result = json.loads(result_text); result['method'] = 'gpt'; return result
\* with the confidence clamped into [0, 1]
GptVerdictClamped(obj) ==
    Verdict(obj.is_spam,
            IF obj.confidence.tag = "num" /\ obj.confidence.n > 100
            THEN Num(100) ELSE obj.confidence,
            obj.reason, obj.category, Str("gpt"), NoFeatures)

\* result = json.loads(result_text); result['method'] = 'gpt'; return result
GptVerdict(obj) ==
    Verdict(obj.is_spam, obj.confidence, obj.reason, obj.category, Str("gpt"),
            NoFeatures)

\* the try block on the completion's content
ParseCompletion(content) ==
    IF ParseError(content) # "" THEN ErrorVerdict(ParseError(content))
    ELSE GptVerdict(content.obj)

\* how many completion requests one detect call submits, retrying a failed one
CompletionRequestsRetry(conclusive, client) ==
    IF conclusive \/ client = "none" THEN 0 ELSE 2

\* how many completion requests one detect call submits: none when a fast
\* rule fired (return at line 276) or the client is missing (return at
\* line 183), else the one of line 217
CompletionRequests(conclusive, client) ==
    IF conclusive \/ client = "none" THEN 0 ELSE 1

\* ----------------------------------------------------------------- detect

\* self.stats['total'] += 1
CountTotal(st) == [st EXCEPT !.total = @ + 1]

\* the fast-rule return counted as an LLM pass
CountFastRuleAsGpt(st) == [st EXCEPT !.gpt_calls = @ + 1]

\* self.stats['fast_rules'] += 1
CountFastRule(st) == [st EXCEPT !.fast_rules = @ + 1]

\* the LLM pass left uncounted
CountGptCallNot(st) == st

\* self.stats['gpt_calls'] += 1
CountGptCall(st) == [st EXCEPT !.gpt_calls = @ + 1]

\* gpt_result['features'] = features
AttachFeatures(verdict, features) == [verdict EXCEPT !.features = features]

\* if is_spam is not None
Conclusive(r) == r.is_spam # PyNone

\* the return at line 276
FastRuleVerdict(r, features) ==
    Verdict(r.is_spam, r.confidence, r.reason, Absent, Str("fast_rule"), features)

\* if not system_prompt: system_prompt = <the default prompt>
EffectivePrompt(system_prompt) ==
    IF system_prompt = "" THEN "default" ELSE system_prompt

\* -------------------------------------------------------------- get_stats

\* 0.0003 dollars for one completion (GPT-4o-mini), in ten-thousandths of a dollar
UnitCost == 3

\* round(num / den * 100, 1) in hundredths: to the nearest tenth, a tie to
\* the even tenth
Round1(num, den) ==
    LET q == (1000 * num) \div den
        r == (1000 * num) % den
    IN  10 * (IF 2 * r > den \/ (2 * r = den /\ q % 2 = 1) THEN q + 1 ELSE q)

\* f"${amount:.4f}", the amount in ten-thousandths of a dollar
Money(amount) == [tag |-> "str", b |-> FALSE, n |-> amount, pre |-> "$", s |-> ".4f"]

\* a counter as a dict value
Count(k) == Num(100 * k)

StatsDict(total, fast_rules, gpt_calls, fast_rules_pct, gpt_calls_pct, estimated_savings, estimated_savings_pct, cost_without_optimization, cost_with_two_pass, savings) ==
    [total |-> total, fast_rules |-> fast_rules, gpt_calls |-> gpt_calls,
     fast_rules_pct |-> fast_rules_pct, gpt_calls_pct |-> gpt_calls_pct,
     estimated_savings |-> estimated_savings,
     estimated_savings_pct |-> estimated_savings_pct,
     cost_without_optimization |-> cost_without_optimization,
     cost_with_two_pass |-> cost_with_two_pass, savings |-> savings]

\* no report at hand
NoReport ==
    StatsDict(Absent, Absent, Absent, Absent, Absent, Absent, Absent, Absent,
              Absent, Absent)

\* the dict get_stats returns on these counters; a key it lacks is Absent
StatsReport(st) ==
    IF st.total = 0
    THEN StatsDict(Count(0), Absent, Absent, Num(0), Num(0), Num(0), Absent,
                   Absent, Absent, Absent)
    ELSE LET cost_with_gpt == st.total * UnitCost
             cost_two_pass == st.gpt_calls * UnitCost
             savings_pct == IF cost_with_gpt > 0
                            THEN Round1(cost_with_gpt - cost_two_pass, cost_with_gpt)
                            ELSE 0
         IN  StatsDict(Count(st.total), Count(st.fast_rules), Count(st.gpt_calls),
                       Num(Round1(st.fast_rules, st.total)),
                       Num(Round1(st.gpt_calls, st.total)),
                       Absent, Num(savings_pct),
                       Money(cost_with_gpt), Money(cost_two_pass),
                       Money(cost_with_gpt - cost_two_pass))

\* ----------------------------------------------------------------- inputs

NoAttr == [present |-> FALSE, value |-> <<>>]
Attr(runs) == [present |-> TRUE, value |-> runs]
Anchors(href, host, n) == [href |-> href, host |-> host, n |-> n]
Imgs(width, height, n) == [width |-> width, height |-> height, n |-> n]
Body(anchors, imgs, text, raw_len) ==
    [anchors |-> anchors, imgs |-> imgs, text |-> text, raw_len |-> raw_len]

Pixel1x1 == Imgs(Attr(<<<<"1", 1>>>>), Attr(<<<<"1", 1>>>>), 3)
Banner == Imgs(Attr(<<<<"6", 1>>, <<"0", 2>>, <<"p", 1>>, <<"x", 1>>>>), Attr(<<<<"2", 1>>, <<"0", 2>>>>), 6)

TxtPlain == <<[s |-> <<"O", "l", "á", ",", " ", "g", "o", "s", "t", "a", "r", "i", "a", " ", "d", "e", " ", "d", "i", "s", "c", "u", "t", "i", "r", " ", "u", "m", "a", " ", "p", "o", "s", "s", "í", "v", "e", "l", " ", "p", "a", "r", "c", "e", "r", "i", "a", " ", "p", "a", "r", "a", " ", "n", "o", "s", "s", "o", "s", " ", "n", "e", "g", "ó", "c", "i", "o", "s", ".", " ", "P", "o", "d", "e", "m", "o", "s", " ", "a", "g", "e", "n", "d", "a", "r", " ", "u", "m", "a", " ", "r", "e", "u", "n", "i", "ã", "o", "?">>, n |-> 1]>>
TxtCv == <<[s |-> <<"S", "e", "g", "u", "e", " ", "m", "e", "u", " ", "c", "u", "r", "r", "í", "c", "u", "l", "o", " ", "e", "m", " ", "a", "n", "e", "x", "o", " ", "p", "a", "r", "a", " ", "a", " ", "v", "a", "g", "a", " ", "d", "i", "s", "p", "o", "n", "í", "v", "e", "l", ".">>, n |-> 1]>>
TxtOffer == <<[s |-> <<"V", "e", "j", "a", " ", "a", " ", "o", "f", "e", "r", "t", "a", ".">>, n |-> 1]>>

Bodies ==
    { \* the empty body
      Body(<<>>, <<>>, <<>>, 0),
      \* plain text, no markup
      Body(<<>>, <<>>, TxtPlain, 98),
      Body(<<>>, <<>>, TxtCv, 52),
      \* 16 links and 3 tracking pixels
      Body(<<Anchors(TRUE, "example.com", 16)>>, <<Pixel1x1>>,
           <<[s |-> <<"L", "i", "n", "k", " ">>, n |-> 16]>>, 900),
      \* 11 links, one anchor without href, 6 banners, 6 keywords
      Body(<<Anchors(TRUE, "loja.com", 8), Anchors(TRUE, "cdn.loja.com", 3),
             Anchors(FALSE, "", 1)>>, <<Banner>>,
           <<[s |-> <<"C", "l", "i", "q", "u", "e", ":", " ", "o", "f", "e", "r", "t", "a", " ", "g", "r", "a", "t", "i", "s", ",", " ", "d", "e", "s", "c", "o", "n", "t", "o", " ", "u", "r", "g", "e", "n", "t", "e", "!", " ">>, n |-> 2]>>, 1500),
      \* markup-heavy template: 6 links, 14 characters of text
      Body(<<Anchors(TRUE, "news.com", 5), Anchors(TRUE, "", 1)>>, <<>>,
           TxtOffer, 400),
      \* moderate HTML: 3 links, 1 image, 1 keyword
      Body(<<Anchors(TRUE, "a.com", 3)>>,
           <<Imgs(Attr(<<<<"1", 1>>, <<"0", 2>>, <<"%", 1>>>>), NoAttr, 1)>>,
           TxtOffer, 300),
      \* shouting with a keyword
      Body(<<>>, <<>>, <<[s |-> <<"S", "U", "P", "E", "R", " ", "O", "F", "E", "R", "T", "A", "!", " ">>, n |-> 4]>>, 56),
      \* shouting without links, keywords or pixels
      Body(<<>>, <<>>, <<[s |-> <<"A", "B", "C", " ", "d", " ">>, n |-> 9]>>, 54),
      \* plain text and one image without width and height
      Body(<<>>, <<Imgs(NoAttr, NoAttr, 1)>>, TxtPlain, 120),
      \* an image whose width has 4301 digits
      Body(<<>>, <<Imgs(Attr(<<<<"9", 4301>>>>), Attr(<<<<"1", 1>>>>), 1)>>,
           TxtPlain, 4430) }

Subjects ==
    { <<>>,
      <<"R", "e", "p", "o", "r", "t", " ", "D", "o", "m", "a", "i", "n", ":", " ", "a", ".", "c", "o", "m">>,
      <<"F", "w", "d", ":", " ", "D", "M", "A", "R", "C">>,
      <<"C", "u", "r", "r", "í", "c", "u", "l", "o", " ", "J", "o", "ã", "o", " ", "S", "i", "l", "v", "a">>,
      <<"C", "V", " ", "A", "n", "a">>,
      <<"P", "r", "o", "p", "o", "s", "t", "a", " ", "d", "e", " ", "p", "a", "r", "c", "e", "r", "i", "a">>,
      <<"C", "V", " ", "d", "m", "a", "r", "c">> }

\* the prompt start-up loads: none, or the optimized prompt of the config file
Prompts == {"", "optimized"}

JsonObject(is_spam, confidence, reason, category, method) ==
    [is_spam |-> is_spam, confidence |-> confidence, reason |-> reason,
     category |-> category, method |-> method]
NoObject == JsonObject(Absent, Absent, Absent, Absent, Absent)
Content(kind, fenced, obj) == [kind |-> kind, fenced |-> fenced, obj |-> obj]

Contents ==
    { Content("object", FALSE,
              JsonObject(Bool(TRUE), Num(80), Str("promo"), Str("marketing"), Absent)),
      Content("object", TRUE,
              JsonObject(Bool(FALSE), Num(90), Str("ok"), Str("legit"), Absent)),
      Content("object", FALSE,
              JsonObject(Str("false"), Num(150), Absent, PyNone, Str("error"))),
      Content("nonobject", FALSE, NoObject),
      Content("invalid", FALSE, NoObject),
      Content("invalid", TRUE, NoObject),
      Content("none", FALSE, NoObject) }

\* str(e) of the exceptions the completion call raises
ClientErrors == {"Request timed out.", "Rate limit reached"}

\* ------------------------------------------------------------------ state

Call(body, subject, system_prompt, features) ==
    [body |-> body, subject |-> subject, system_prompt |-> system_prompt,
     features |-> features]

\* what the completion client did in a call
Llm(kind, err, content) == [kind |-> kind, err |-> err, content |-> content]
NoContent == Content("none", FALSE, NoObject)

Finished(outcome, call, llm, sent, result) ==
    [outcome |-> outcome, call |-> call, llm |-> llm, sent |-> sent,
     result |-> result]

NoProbe ==
    [pc |-> "off", features |-> NoFeatures, result |-> RuleResult(PyNone, PyNone, "")]

\* what one call of extract_features gave
Extracted(outcome, features, rule) ==
    [outcome |-> outcome, features |-> features, rule |-> rule]
NotExtracted == Extracted("none", NoFeatures, RuleResult(PyNone, PyNone, ""))

NoExtraction ==
    [pc |-> "off", body |-> Body(<<>>, <<>>, <<>>, 0), subject |-> <<>>,
     first |-> NotExtracted, second |-> NotExtracted]

\* no webhook application is running
NoWeb == [phase |-> "off"]

\* no call has ended yet
NoHistory ==
    [returned |-> 0, raised |-> 0, cancelled |-> 0, fast_rule |-> 0, llm_pass |-> 0]

\* the methods the LLM pass gives a verdict
LlmMethods == {Str("gpt"), Str("fallback"), Str("error")}

\* one more verdict returned by detect, counted under its method
Tally(h, verdict) ==
    [h EXCEPT !.returned = @ + 1,
              !.fast_rule = @ + (IF verdict.method = Str("fast_rule") THEN 1 ELSE 0),
              !.llm_pass = @ + (IF verdict.method \in LlmMethods THEN 1 ELSE 0)]

Init ==
    /\ openai_client \in {"none", "client"}
    /\ optimized_prompt \in Prompts
    /\ stats = [total |-> 0, fast_rules |-> 0, gpt_calls |-> 0]
    /\ inflight = EmptyBag
    /\ last = Finished("none", Call(Body(<<>>, <<>>, <<>>, 0), <<>>, "", NoFeatures),
                       Llm("not_called", "", NoContent), 0, NoVerdict)
    /\ hist = NoHistory
    /\ report = NoReport
    /\ extraction = NoExtraction
    /\ web = NoWeb
    /\ requests = 0
    /\ probe = NoProbe

\* features = self.extract_features(body, subject) and
\* self.apply_fast_rules(features), tabulated over the inputs of the model
\* (the tables are evaluated once, not once per step)
features_of ==
    [b \in Bodies, s \in Subjects |->
        IF ExtractRaises(b) THEN NoFeatures ELSE ExtractFeatures(b, s)]
fast_rules_of ==
    [b \in Bodies, s \in Subjects |-> ApplyFastRules(features_of[b, s])]

\* detect(body, subject, system_prompt), up to its return, its raise or its
\* suspension at the await of the completion call
Detect(body, subject, system_prompt) ==
    /\ stats.total < MaxCalls
    /\ UNCHANGED <<openai_client, optimized_prompt, extraction, probe>>
    /\ report' = NoReport
    /\ IF ExtractRaises(body)
       THEN /\ stats' = CountTotal(stats)
            /\ last' = Finished("raised", Call(body, subject, system_prompt, NoFeatures),
                                Llm("not_called", "", NoContent), 0, NoVerdict)
            /\ hist' = [hist EXCEPT !.raised = @ + 1]
            /\ UNCHANGED <<inflight, requests>>
       ELSE LET features == features_of[body, subject]
                r == fast_rules_of[body, subject]
                call == Call(body, subject, EffectivePrompt(system_prompt), features)
                sent == CompletionRequests(Conclusive(r), openai_client)
            IN  IF Conclusive(r)
                THEN /\ stats' = CountFastRule(CountTotal(stats))
                     /\ last' = Finished("returned", call, Llm("not_called", "", NoContent),
                                         sent, FastRuleVerdict(r, features))
                     /\ hist' = Tally(hist, FastRuleVerdict(r, features))
                     /\ requests' = requests + sent
                     /\ UNCHANGED inflight
                ELSE IF openai_client = "none"
                THEN /\ stats' = CountGptCall(CountTotal(stats))
                     /\ last' = Finished("returned", call, Llm("no_client", "", NoContent),
                                         sent, AttachFeatures(FallbackVerdict, features))
                     /\ hist' = Tally(hist, FallbackVerdict)
                     /\ requests' = requests + sent
                     /\ UNCHANGED inflight
                ELSE /\ BagCardinality(inflight) < MaxInFlight
                     /\ stats' = CountGptCall(CountTotal(stats))
                     /\ inflight' = inflight (+) SetToBag({[call |-> call, sent |-> sent]})
                     /\ requests' = requests + sent
                     /\ UNCHANGED <<last, hist>>

\* the awaited completion call returns a response with this content
CompletionReturns(c, content) ==
    /\ BagIn(c, inflight)
    /\ inflight' = inflight (-) SetToBag({c})
    /\ last' = Finished("returned", c.call, Llm("content", "", content), c.sent,
                        AttachFeatures(ParseCompletion(content), c.call.features))
    /\ hist' = Tally(hist, ParseCompletion(content))
    /\ report' = NoReport
    /\ UNCHANGED <<openai_client, optimized_prompt, extraction, stats, requests, probe>>

\* the awaited completion call raises an Exception, str(e) = err
CompletionRaises(c, err) ==
    /\ BagIn(c, inflight)
    /\ inflight' = inflight (-) SetToBag({c})
    /\ last' = Finished("returned", c.call, Llm("raised", err, NoContent), c.sent,
                        AttachFeatures(ErrorVerdict(err), c.call.features))
    /\ hist' = Tally(hist, ErrorVerdict(err))
    /\ report' = NoReport
    /\ UNCHANGED <<openai_client, optimized_prompt, extraction, stats, requests, probe>>

\* the task awaiting the completion is cancelled: CancelledError is no
\* Exception, `except Exception` lets it through and detect raises it
Cancel(c) ==
    /\ BagIn(c, inflight)
    /\ inflight' = inflight (-) SetToBag({c})
    /\ last' = Finished("cancelled", c.call, Llm("cancelled", "", NoContent), c.sent,
                        NoVerdict)
    /\ hist' = [hist EXCEPT !.cancelled = @ + 1]
    /\ report' = NoReport
    /\ UNCHANGED <<openai_client, optimized_prompt, extraction, stats, requests, probe>>

\* get_stats() with the counters reset afterwards
GetStatsAndReset ==
    /\ report' = StatsReport(stats)
    /\ stats' = [total |-> 0, fast_rules |-> 0, gpt_calls |-> 0]
    /\ UNCHANGED <<openai_client, optimized_prompt, extraction, inflight, last, hist, requests, probe>>

\* get_stats(): reads the counters and returns the report
GetStats ==
    /\ report' = StatsReport(stats)
    /\ UNCHANGED <<openai_client, optimized_prompt, extraction, stats, inflight, last, hist, requests, probe>>

\* the detector used on its own, as the test scripts do: no webhook runs
Next ==
    \/ (\E b \in Bodies, s \in Subjects : Detect(b, s, optimized_prompt)) /\ UNCHANGED web
    \/ (\E c \in BagToSet(inflight), content \in Contents : CompletionReturns(c, content)) /\ UNCHANGED web
    \/ (\E c \in BagToSet(inflight), err \in ClientErrors : CompletionRaises(c, err)) /\ UNCHANGED web
    \/ (\E c \in BagToSet(inflight) : Cancel(c)) /\ UNCHANGED web
    \/ GetStats /\ UNCHANGED web

Spec == Init /\ [][Next]_vars

\* ------------------------------------------- apply_fast_rules on its own

\* Feature records around every threshold of the rules, each consistent
\* with what extract_features produces (pixels <= images, domains <= urls,
\* preview of at most 200 characters).
FeatureGrid ==
    [url_count : {0, 5, 6, 10, 11, 15, 16},
     img_count : {5, 6},
     unique_domains : {0},
     tracking_pixel_count : {0, 2, 3},
     html_text_ratio : {[num |-> 20, den |-> 1], [num |-> 21, den |-> 1]},
     spam_keyword_count : {0, 3, 4},
     caps_ratio : {[num |-> 2, den |-> 5], [num |-> 41, den |-> 100]},
     exclamation_count : {0},
     subject : Subjects,
     text_preview : {<<[s |-> <<"A", "b">>, n |-> 25]>>,
                     <<[s |-> <<"A", "b">>, n |-> 25], [s |-> <<"!">>, n |-> 1]>>}]

RulesInit ==
    /\ openai_client = "none"
    /\ optimized_prompt = ""
    /\ stats = [total |-> 0, fast_rules |-> 0, gpt_calls |-> 0]
    /\ inflight = EmptyBag
    /\ last = Finished("none", Call(Body(<<>>, <<>>, <<>>, 0), <<>>, "", NoFeatures),
                       Llm("not_called", "", NoContent), 0, NoVerdict)
    /\ hist = NoHistory
    /\ report = NoReport
    /\ extraction = NoExtraction
    /\ web = NoWeb
    /\ requests = 0
    /\ \E f \in FeatureGrid :
           probe = [pc |-> "input", features |-> f,
                    result |-> RuleResult(PyNone, PyNone, "")]

\* apply_fast_rules(features)
Evaluate ==
    /\ probe.pc = "input"
    /\ probe' = [probe EXCEPT !.pc = "done", !.result = ApplyFastRules(probe.features)]
    /\ UNCHANGED <<openai_client, optimized_prompt, extraction, stats, inflight, last, hist, requests, report, web>>

RulesNext == Evaluate

RulesSpec == RulesInit /\ [][RulesNext]_vars

\* ------------------------------------------ extract_features on its own

\* width / height attributes: none, empty, and values around 1
Dimensions ==
    { NoAttr, Attr(<<>>), Attr(<<<<"0", 1>>>>), Attr(<<<<"1", 1>>>>),
      Attr(<<<<"1", 1>>, <<"p", 1>>, <<"x", 1>>>>), Attr(<<<<"2", 1>>>>),
      Attr(<<<<"0", 1>>, <<".", 1>>, <<"5", 1>>>>),
      Attr(<<<<"a", 1>>, <<"u", 1>>, <<"t", 1>>, <<"o", 1>>>>) }

\* a plain text and one image, no link
ImageBodies ==
    { Body(<<>>, <<Imgs(w, h, 1)>>, TxtCv, 120) : w, h \in Dimensions }

\* 250 characters of text, 3 links to 2 hosts, a banner and a 1x1 image
LongBody ==
    Body(<<Anchors(TRUE, "a.com", 2), Anchors(TRUE, "b.com", 1)>>,
         <<Imgs(Attr(<<<<"6", 1>>, <<"0", 2>>>>), Attr(<<<<"2", 1>>, <<"0", 2>>>>), 1),
           Imgs(Attr(<<<<"1", 1>>>>), Attr(<<<<"1", 1>>>>), 1)>>,
         <<[s |-> <<"G", "r", "a", "t", "i", "s", " ", "j", "á", " ">>, n |-> 25]>>, 600)

ExtractBodies == Bodies \cup ImageBodies \cup {LongBody}
ExtractSubjects == {<<>>, <<"C", "u", "r", "r", "í", "c", "u", "l", "o", " ", "J", "o", "ã", "o", " ", "S", "i", "l", "v", "a">>}

\* the detect calls made between the two extractions
BetweenBodies ==
    { Body(<<>>, <<>>, <<>>, 0),
      Body(<<>>, <<Imgs(NoAttr, NoAttr, 1)>>, TxtPlain, 120),
      Body(<<>>, <<Imgs(Attr(<<<<"9", 4301>>>>), Attr(<<<<"1", 1>>>>), 1)>>,
           TxtPlain, 4430) }

ExtractInit ==
    /\ openai_client = "client"
    /\ optimized_prompt = ""
    /\ stats = [total |-> 0, fast_rules |-> 0, gpt_calls |-> 0]
    /\ inflight = EmptyBag
    /\ last = Finished("none", Call(Body(<<>>, <<>>, <<>>, 0), <<>>, "", NoFeatures),
                       Llm("not_called", "", NoContent), 0, NoVerdict)
    /\ hist = NoHistory
    /\ report = NoReport
    /\ requests = 0
    /\ probe = NoProbe
    /\ web = NoWeb
    /\ \E b \in ExtractBodies, s \in ExtractSubjects :
           extraction = [pc |-> "input", body |-> b, subject |-> s,
                         first |-> NotExtracted, second |-> NotExtracted]

\* extract_features(body, subject) with the count of links depending on
\* the calls the detector has counted
ExtractFeaturesStateful(body, subject) ==
    IF ExtractRaises(body)
    THEN Extracted("raised", NoFeatures, RuleResult(PyNone, PyNone, ""))
    ELSE LET f == [ExtractFeatures(body, subject) EXCEPT !.url_count = @ + stats.total]
         IN  Extracted("returned", f, ApplyFastRules(f))

\* features = self.extract_features(body, subject), and what
\* self.apply_fast_rules(features) makes of them
ExtractFeaturesCall(body, subject) ==
    IF ExtractRaises(body)
    THEN Extracted("raised", NoFeatures, RuleResult(PyNone, PyNone, ""))
    ELSE LET f == ExtractFeatures(body, subject)
         IN  Extracted("returned", f, ApplyFastRules(f))

\* extract_features on the input, a first and a second time
Extract ==
    /\ extraction.pc \in {"input", "once"}
    /\ extraction' =
           IF extraction.pc = "input"
           THEN [extraction EXCEPT !.pc = "once",
                    !.first = ExtractFeaturesCall(extraction.body, extraction.subject)]
           ELSE [extraction EXCEPT !.pc = "twice",
                    !.second = ExtractFeaturesCall(extraction.body, extraction.subject)]
    /\ UNCHANGED <<openai_client, optimized_prompt, stats, inflight, last, hist, requests, probe, report, web>>

\* a detect call on the same detector between the two extractions
DetectBetween(body) ==
    /\ extraction.pc = "once"
    /\ Detect(body, <<>>, optimized_prompt)
    /\ UNCHANGED web

ExtractNext ==
    \/ Extract
    \/ \E b \in BetweenBodies : DetectBetween(b)

ExtractSpec == ExtractInit /\ [][ExtractNext]_vars

\* ------------------------------------------------------------ the webhook

UpperChar(c) ==
    IF \E i \in 1..Len(LowerChars) : LowerChars[i] = c
    THEN UpperChars[CHOOSE i \in 1..Len(LowerChars) : LowerChars[i] = c]
    ELSE c

\* str.upper()
Upper(s) == [i \in 1..Len(s) |-> UpperChar(s[i])]

\* the environment of one run of the server
Env(api_key, models, prompt_file, secret, algo) ==
    [OPENAI_API_KEY |-> api_key, models |-> models, prompt_file |-> prompt_file,
     WEBHOOK_SECRET |-> secret, WEBHOOK_SIGNATURE_ALGO |-> algo]

\* models: what `await client.models.list()` does; prompt_file: whether
\* config/optimized_prompt.txt is missing, readable, or raises on reading.
\* The other variables keep their defaults: X-Signature, idempotency
\* enabled on Idempotency-Key and X-Event-Id with a TTL of 600 seconds.
Envs ==
    { Env(TRUE, "listed", "readable", FALSE, "sha256"),
      Env(TRUE, "listed", "missing", TRUE, "sha256"),
      Env(TRUE, "listed", "missing", TRUE, "md5"),
      Env(FALSE, "listed", "missing", FALSE, "sha256"),
      Env(TRUE, "raises", "readable", TRUE, "sha256"),
      Env(TRUE, "listed", "unreadable", FALSE, "sha256") }

\* a detector is created although the connection test was not passed
DetectorCreatedUntested(env) ==
    env.OPENAI_API_KEY /\ env.prompt_file # "unreadable"

\* initialize_openai reaches `app["spam_detector"] = detector`
DetectorCreated(env) ==
    env.OPENAI_API_KEY /\ env.models = "listed" /\ env.prompt_file # "unreadable"

\* app["optimized_prompt"] after initialize_openai; "" is what
\* request.app.get("optimized_prompt", "") gives when it was never set
LoadedPrompt(env) ==
    IF ~(env.OPENAI_API_KEY /\ env.models = "listed") \/ env.prompt_file = "unreadable"
    THEN ""
    ELSE IF env.prompt_file = "readable" THEN "optimized" ELSE "builtin"

\* a JSON value where the handler expects a string
JsonStr(s) == [json |-> "string", str |-> s]
JsonNull == [json |-> "null", str |-> <<>>]
JsonAbsent == [json |-> "absent", str |-> <<>>]

\* json.loads(body): an object with these keys, or the JSON value null.
\* body and the subjects are strings, contactId is a non-empty string or
\* missing; bodies stay below the 10000 characters the handler keeps.
Payload(json, messageType, body, subject, emailData_subject, contactId) ==
    [json |-> json, messageType |-> messageType, body |-> body, subject |-> subject,
     emailData_subject |-> emailData_subject, contactId |-> contactId]

\* signature: the X-Signature header, "" when missing, "mac" the hex HMAC of
\* the body under the secret
Request(route, signature, idempotency_key, x_event_id, payload) ==
    [route |-> route, signature |-> signature, idempotency_key |-> idempotency_key,
     x_event_id |-> x_event_id, payload |-> payload]

SpamBody ==
    Body(<<Anchors(TRUE, "example.com", 16)>>, <<Pixel1x1>>,
         <<[s |-> <<"L", "i", "n", "k", " ">>, n |-> 16]>>, 900)
LlmBody == Body(<<>>, <<Imgs(NoAttr, NoAttr, 1)>>, TxtPlain, 120)
CleanBody == Body(<<>>, <<>>, TxtPlain, 98)
RaisingBody ==
    Body(<<>>, <<Imgs(Attr(<<<<"9", 4301>>>>), Attr(<<<<"1", 1>>>>), 1)>>, TxtPlain, 4430)

PSpam == Payload("object", JsonStr(<<"E", "m", "a", "i", "l">>), SpamBody, <<>>, <<>>, TRUE)
PLlm == Payload("object", JsonStr(<<"T", "Y", "P", "E", "_", "E", "M", "A", "I", "L">>), LlmBody, <<>>, <<>>, TRUE)
PCv == Payload("object", JsonStr(<<"m", "a", "i", "l">>), LlmBody, <<>>, <<"C", "V", " ", "A", "n", "a">>, FALSE)
PClean == Payload("object", JsonStr(<<"E", "m", "a", "i", "l">>), CleanBody, <<"P", "r", "o", "p", "o", "s", "t", "a", " ", "d", "e", " ", "p", "a", "r", "c", "e", "r", "i", "a">>, <<>>, TRUE)
PRaises == Payload("object", JsonStr(<<"E", "M", "A", "I", "L">>), RaisingBody, <<>>, <<>>, TRUE)
PSms == Payload("object", JsonStr(<<"S", "M", "S">>), SpamBody, <<>>, <<>>, TRUE)
PNoType == Payload("object", JsonAbsent, SpamBody, <<>>, <<>>, TRUE)
PNullType == Payload("object", JsonNull, SpamBody, <<>>, <<>>, TRUE)
PNull == Payload("null", JsonAbsent, Body(<<>>, <<>>, <<>>, 0), <<>>, <<>>, FALSE)

Requests ==
    { Request("InboundMessage", "mac", "k1", "", PSpam),
      Request("InboundMessage", "mac", "", "k1", PLlm),
      Request("InboundMessage", "bad", "k1", "", PSpam),
      Request("InboundMessage", "", "k1", "", PSpam),
      Request("InboundMessage", "sha256=mac", "k1", "k2", PCv),
      Request("InboundMessage", "mac", "", "", PClean),
      Request("InboundMessage", "mac", "", "", PRaises),
      Request("InboundMessage", "mac", "", "", PSms),
      Request("InboundMessage", "mac", "", "", PNoType),
      Request("InboundMessage", "mac", "k1", "", PNullType),
      Request("InboundMessage", "mac", "", "", PNull),
      Request("spam-stats", "mac", "", "", PNull) }

Keys == {"k1", "k2"}

\* what the LLM answers to the requests of the webhook
WebContents ==
    { Content("object", FALSE,
              JsonObject(Bool(TRUE), Num(80), Str("promo"), Str("marketing"), Absent)),
      Content("object", TRUE,
              JsonObject(Bool(FALSE), Num(90), Str("ok"), Str("legit"), Absent)),
      Content("object", FALSE,
              JsonObject(Str("false"), Num(150), Absent, PyNone, Str("error"))),
      Content("object", FALSE,
              JsonObject(Bool(TRUE), Str("high"), Str("promo"), Absent, Absent)),
      Content("invalid", FALSE, NoObject) }

\* str(e) of the exception the completion call raises
WebErrors == {"Rate limit reached"}

\* One request being served or answered. pc is the await the request is
\* suspended at, or "done"; raw_body: request["raw_body"] is set; idem:
\* what the idempotency middleware did ("none" when it was not reached), at
\* the expiry count `epoch` of the key; reached: the route handler was
\* called; detected: detector.detect was called; is_spam, spam_confidence,
\* detection_method: the handler's locals; saved: save_spam_email was called; delete: whether
\* delete_contact was called and has returned.
Arrived(req) ==
    [req |-> req, pc |-> "arrived", status |-> 0, answer |-> "", raw_body |-> FALSE,
     idem |-> "none", epoch |-> 0, reached |-> FALSE, detected |-> FALSE,
     is_spam |-> Bool(FALSE), spam_confidence |-> Num(0),
     detection_method |-> Str("none"), saved |-> FALSE, delete |-> "no"]

Respond(e, status, answer) == [e EXCEPT !.pc = "done", !.status = status, !.answer = answer]

Store(w, i, e) ==
    [w EXCEPT !.served = IF i > Len(@) THEN Append(@, e) ELSE [@ EXCEPT ![i] = e]]

\* ---- _signature_middleware

\* provided.split("=", 1)[1] if provided.startswith(f"{algo}=")
StripAlgo(algo, provided) ==
    IF provided = "sha256=mac" /\ algo = "sha256" THEN "mac" ELSE provided

\* a comparison that accepts every signature
SignatureUnchecked(algo, provided) == TRUE

\* _constant_time_compare(mac, provided)
SignatureMatches(algo, provided) == StripAlgo(algo, provided) = "mac"

\* ---- _TTLMemory and _idempotency_middleware

\* the first non-empty of the headers Idempotency-Key, X-Event-Id
IdempotencyKey(req) ==
    IF req.idempotency_key # "" THEN req.idempotency_key ELSE req.x_event_id

\* seen(key): exp and exp > now
Seen(cache, key) == cache[key] = "live"

\* a put that stores nothing
PutNothing(cache, key) == cache

\* put(key): self._store[key] = time.time() + self.ttl
Put(cache, key) == [cache EXCEPT ![key] = "live"]

\* ---- the handlers

\* dict.get(key, default)
GetOr(v, default) == IF v.tag = "absent" THEN default ELSE v

\* f"{spam_confidence:.2f}" and f"{spam_confidence:.0%}" raise for a value
\* that is neither a number nor a bool
FormatRaises(v) == v.tag \notin {"num", "bool"}

\* payload.get("messageType", "Unknown")
MessageChannel(payload) ==
    IF payload.messageType.json = "absent"
    THEN JsonStr(<<"U", "n", "k", "n", "o", "w", "n">>)
    ELSE payload.messageType

\* payload.get(...) on a payload that is no dict, message_channel.upper()
\* on a channel that is no str: AttributeError, outside every try
HandlerRaises(payload) ==
    \/ payload.json # "object"
    \/ MessageChannel(payload).json # "string"

EmailChannels ==
    { <<"E", "M", "A", "I", "L">>,
      <<"T", "Y", "P", "E", "_", "E", "M", "A", "I", "L">>,
      <<"M", "A", "I", "L">> }

\* message_channel.upper() in ["EMAIL", "TYPE_EMAIL", "MAIL"]
IsEmail(payload) == Upper(MessageChannel(payload).str) \in EmailChannels

\* payload.get("subject", "") or payload.get("emailData", {}).get("subject", "")
Subject(payload) ==
    IF payload.subject # <<>> THEN payload.subject ELSE payload.emailData_subject

\* `if is_spam:`
IsSpam(v) == Truthy(v)

\* the handler from the return of detect on: the two log lines, the save,
\* the await of delete_contact, the prints and the response
AfterDetect(e, result) ==
    LET is_spam == GetOr(result.is_spam, Bool(FALSE))
        spam_confidence == GetOr(result.confidence, Num(0))
        d == [e EXCEPT !.detected = TRUE, !.spam_confidence = spam_confidence,
                       !.detection_method = GetOr(result.method, Str("unknown"))]
    IN  IF FormatRaises(spam_confidence)
        THEN \* caught at line 456: is_spam = False; the print raises again
             Respond([d EXCEPT !.is_spam = Bool(FALSE)], 500, "Internal Server Error")
        ELSE IF IsSpam(is_spam)
        THEN IF e.req.payload.contactId
             THEN [d EXCEPT !.is_spam = is_spam, !.saved = TRUE, !.pc = "delete_contact",
                            !.delete = "called"]
             ELSE Respond([d EXCEPT !.is_spam = is_spam, !.saved = TRUE], 200, "ok")
        ELSE Respond([d EXCEPT !.is_spam = is_spam], 200, "ok")

\* detect raised: caught at line 456, is_spam = False
AfterDetectRaised(e) == Respond([e EXCEPT !.detected = TRUE], 200, "ok")

\* _handler from the parsing of the body on, up to its response or the
\* await inside detect
HandlerBody(i, e, w) ==
    LET payload == e.req.payload
    IN  IF HandlerRaises(payload)
        THEN /\ web' = Store(w, i, Respond(e, 500, "Internal Server Error"))
             /\ UNCHANGED <<openai_client, optimized_prompt, stats, inflight, last, hist, requests, probe, report, extraction>>
        ELSE IF ~IsEmail(payload) \/ w.spam_detector = "none"
        THEN /\ web' = Store(w, i, Respond(e, 200, "ok"))
             /\ UNCHANGED <<openai_client, optimized_prompt, stats, inflight, last, hist, requests, probe, report, extraction>>
        ELSE /\ Detect(payload.body, Subject(payload), optimized_prompt)
             /\ web' = Store(w, i,
                    IF inflight' # inflight
                    THEN [e EXCEPT !.detected = TRUE, !.pc = "detect"]
                    ELSE IF last'.outcome = "raised" THEN AfterDetectRaised(e)
                    ELSE AfterDetect(e, last'.result))

\* spam_stats
SpamStats(i, e, w) ==
    IF w.spam_detector = "none"
    THEN /\ web' = Store(w, i, Respond(e, 503, "Sistema de detecção não habilitado"))
         /\ UNCHANGED <<openai_client, optimized_prompt, stats, inflight, last, hist, requests, probe, report, extraction>>
    ELSE /\ GetStats
         /\ web' = Store(w, i, Respond(e, 200, "two_pass_stats"))

\* the route handler is called: spam_stats runs to its response, _handler
\* to its await of request.read() when no raw_body is set
Handler(i, e, w) ==
    LET r == [e EXCEPT !.reached = TRUE]
    IN  IF e.req.route = "spam-stats" THEN SpamStats(i, r, w)
        ELSE IF e.raw_body THEN HandlerBody(i, r, w)
        ELSE /\ web' = Store(w, i, [r EXCEPT !.pc = "handler_read"])
             /\ UNCHANGED <<openai_client, optimized_prompt, stats, inflight, last, hist, requests, probe, report, extraction>>

\* _idempotency_middleware and the handler it calls
Idempotency(i, e, w) ==
    LET key == IdempotencyKey(e.req)
    IN  IF key = "" THEN Handler(i, [e EXCEPT !.idem = "nokey"], w)
        ELSE IF Seen(w.cache, key)
        THEN /\ web' = Store(w, i, Respond([e EXCEPT !.idem = "duplicate", !.epoch = w.expiries[key]],
                                           200, "duplicate"))
             /\ UNCHANGED <<openai_client, optimized_prompt, stats, inflight, last, hist, requests, probe, report, extraction>>
        ELSE Handler(i, [e EXCEPT !.idem = "recorded", !.epoch = w.expiries[key]],
                     [w EXCEPT !.cache = Put(@, key)])

WebInit ==
    /\ openai_client = "none"
    /\ optimized_prompt = ""
    /\ stats = [total |-> 0, fast_rules |-> 0, gpt_calls |-> 0]
    /\ inflight = EmptyBag
    /\ last = Finished("none", Call(Body(<<>>, <<>>, <<>>, 0), <<>>, "", NoFeatures),
                       Llm("not_called", "", NoContent), 0, NoVerdict)
    /\ hist = NoHistory
    /\ report = NoReport
    /\ extraction = NoExtraction
    /\ requests = 0
    /\ probe = NoProbe
    /\ \E env \in Envs :
           web = [phase |-> "starting", env |-> env, spam_detector |-> "none",
                  cache |-> [k \in Keys |-> "absent"], expiries |-> [k \in Keys |-> 0],
                  served |-> <<>>]

\* initialize_openai, the start-up hook
InitializeOpenai ==
    /\ web.phase = "starting"
    /\ web' = [web EXCEPT !.phase = "serving",
                          !.spam_detector = IF DetectorCreated(web.env) THEN "detector" ELSE "none"]
    /\ openai_client' = IF DetectorCreated(web.env) THEN "client" ELSE "none"
    /\ optimized_prompt' = LoadedPrompt(web.env)
    /\ UNCHANGED <<stats, inflight, last, hist, requests, probe, report, extraction>>

\* a request arrives: _signature_middleware up to its 401 or its await of
\* request.read(); without a secret, on to the next middleware
Receive(req) ==
    /\ web.phase = "serving"
    /\ Len(web.served) < MaxRequests
    /\ LET i == Len(web.served) + 1
           e == Arrived(req)
       IN  IF ~web.env.WEBHOOK_SECRET THEN Idempotency(i, e, web)
           ELSE /\ web' = Store(web, i,
                       IF req.signature = ""
                       THEN Respond(e, 401, "missing signature")
                       ELSE [e EXCEPT !.pc = "signature_read"])
                /\ UNCHANGED <<openai_client, optimized_prompt, stats, inflight, last, hist, requests, probe, report, extraction>>

\* request.read() returns in _signature_middleware: the verification, and
\* for a verified body the idempotency middleware and the handler
SignatureRead(i) ==
    /\ web.served[i].pc = "signature_read"
    /\ LET e == web.served[i]
       IN  IF web.env.WEBHOOK_SIGNATURE_ALGO \notin {"sha256", "sha1"}
           THEN /\ web' = Store(web, i, Respond(e, 400, "unsupported signature algo"))
                /\ UNCHANGED <<openai_client, optimized_prompt, stats, inflight, last, hist, requests, probe, report, extraction>>
           ELSE IF ~SignatureMatches(web.env.WEBHOOK_SIGNATURE_ALGO, e.req.signature)
           THEN /\ web' = Store(web, i, Respond(e, 401, "invalid signature"))
                /\ UNCHANGED <<openai_client, optimized_prompt, stats, inflight, last, hist, requests, probe, report, extraction>>
           ELSE Idempotency(i, [e EXCEPT !.raw_body = TRUE], web)

\* request.read() returns in _handler
HandlerRead(i) ==
    /\ web.served[i].pc = "handler_read"
    /\ HandlerBody(i, web.served[i], web)

\* the request waits for the completion c
Awaits(e, c) ==
    /\ e.pc = "detect"
    /\ c.call.body = e.req.payload.body
    /\ c.call.subject = Subject(e.req.payload)

\* the completion a handler waits for returns: detect returns its verdict
DetectReturns(i, c, content) ==
    /\ Awaits(web.served[i], c)
    /\ CompletionReturns(c, content)
    /\ web' = Store(web, i, AfterDetect(web.served[i], last'.result))

\* the completion a handler waits for raises: detect returns the error verdict
DetectFails(i, c, err) ==
    /\ Awaits(web.served[i], c)
    /\ CompletionRaises(c, err)
    /\ web' = Store(web, i, AfterDetect(web.served[i], last'.result))

\* delete_contact returns, True or False: the handler logs either and goes on
DeleteContactReturns(i) ==
    /\ web.served[i].pc = "delete_contact"
    /\ web' = Store(web, i, Respond([web.served[i] EXCEPT !.delete = "returned"], 200, "ok"))
    /\ UNCHANGED <<openai_client, optimized_prompt, stats, inflight, last, hist, requests, probe, report, extraction>>

\* the TTL of a recorded key runs out
Expire(k) ==
    /\ web.phase = "serving"
    /\ web.cache[k] = "live"
    /\ web' = [web EXCEPT !.cache[k] = "expired", !.expiries[k] = @ + 1]
    /\ UNCHANGED <<openai_client, optimized_prompt, stats, inflight, last, hist, requests, probe, report, extraction>>

WebNext ==
    \/ InitializeOpenai
    \/ \E req \in Requests : Receive(req)
    \/ \E i \in 1..Len(web.served) : SignatureRead(i)
    \/ \E i \in 1..Len(web.served) : HandlerRead(i)
    \/ \E i \in 1..Len(web.served), c \in BagToSet(inflight), content \in WebContents : DetectReturns(i, c, content)
    \/ \E i \in 1..Len(web.served), c \in BagToSet(inflight), err \in WebErrors : DetectFails(i, c, err)
    \/ \E i \in 1..Len(web.served) : DeleteContactReturns(i)
    \/ \E k \in Keys : Expire(k)

WebhookSpec == WebInit /\ [][WebNext]_vars

\* ------------------------------------------------------------ properties

\* The ordered rule table of the fast-rule evaluator as the specification
\* states it (section 4.2): condition, verdict, confidence in hundredths.
SubjectHas(f, marker) == Contains(Lower(f.subject), marker)

TableCond(k, f) ==
    CASE k = 1 -> SubjectHas(f, <<"r", "e", "p", "o", "r", "t", " ", "d", "o", "m", "a", "i", "n", ":">>) \/ SubjectHas(f, <<"d", "m", "a", "r", "c">>)
      [] k = 2 -> f.url_count > 15 /\ f.tracking_pixel_count > 2
      [] k = 3 -> f.url_count > 10 /\ f.img_count > 5 /\ f.spam_keyword_count > 3
      [] k = 4 -> f.url_count = 0 /\ f.spam_keyword_count = 0 /\ f.tracking_pixel_count = 0
      [] k = 5 -> f.html_text_ratio.num > 20 * f.html_text_ratio.den /\ f.url_count > 5
      [] k = 6 -> SubjectHas(f, <<"c", "u", "r", "r", "í", "c", "u", "l", "o">>) \/ SubjectHas(f, <<"c", "u", "r", "r", "i", "c", "u", "l", "o">>) \/ SubjectHas(f, <<"c", "v", " ">>)
      [] k = 7 -> 10 * f.caps_ratio.num > 4 * f.caps_ratio.den /\ StrLen(f.text_preview) > 50

TableVerdict ==
    <<[spam |-> FALSE, confidence |-> 100], [spam |-> TRUE, confidence |-> 95],
      [spam |-> TRUE, confidence |-> 92], [spam |-> FALSE, confidence |-> 90],
      [spam |-> TRUE, confidence |-> 88], [spam |-> TRUE, confidence |-> 85],
      [spam |-> TRUE, confidence |-> 87]>>

Firing(f) == {k \in 1..7 : TableCond(k, f)}
FirstFiring(f) == CHOOSE k \in Firing(f) : \A j \in Firing(f) : k <= j

\* the conditions of apply_fast_rules that hold of a feature record
CodeFiring(f) ==
    {k \in 1..7 : CASE k = 1 -> Rule1(f) [] k = 2 -> Rule2(f) [] k = 3 -> Rule3(f)
                    [] k = 4 -> Rule4(f) [] k = 5 -> Rule5(f) [] k = 6 -> Rule6(f)
                    [] k = 7 -> Rule7(f)}

Returned == last.outcome = "returned"
AllCompleted == inflight = EmptyBag /\ hist.raised = 0 /\ hist.cancelled = 0

\* C1: once every detect call made on the detector has completed (returned
\* a verdict), N of them in all, total = N and fast_rules + gpt_calls = N.
C1_StatsAfterCompletedCalls ==
    AllCompleted =>
        /\ stats.total = hist.returned
        /\ stats.fast_rules + stats.gpt_calls = hist.returned

\* three completed calls, decided by a fast rule and by the LLM pass alike,
\* the last one ending in the error verdict
C1_Witness ==
    /\ AllCompleted
    /\ hist.returned = 3
    /\ stats.fast_rules >= 1
    /\ stats.gpt_calls >= 1
    /\ last.result.method = Str("error")

\* the LLM stage of the last call degraded: no client, the completion call
\* raised, or the content is no JSON object
Degraded ==
    \/ last.llm.kind \in {"no_client", "raised"}
    \/ last.llm.kind = "content" /\ last.llm.content.kind # "object"

\* C2: a returned verdict whose LLM stage degraded has is_spam = False, and
\* no verdict with method fallback or error has is_spam = True.
C2_FailOpen ==
    Returned =>
        /\ Degraded => last.result.is_spam = Bool(FALSE)
        /\ last.result.method \in {Str("fallback"), Str("error")}
               => last.result.is_spam # Bool(TRUE)

\* a call whose completion request raised has returned its verdict
C2_Witness ==
    Returned /\ last.llm.kind = "raised" /\ last.result.method = Str("error")

\* C3: detect never raises: every call that ends, ends by returning a
\* verdict (a task cancelled from outside during the await being set aside).
C3_DetectNeverRaises == last.outcome # "raised"

\* C4: a detect call submits a completion request only when no fast rule
\* fired, and at most one: none when a rule fired, no second one after a
\* request that failed.
C4_CompletionOnlyWhenInconclusive ==
    /\ last.sent <= 1
    /\ \A c \in BagToSet(inflight) : c.sent = 1 /\ Firing(c.call.features) = {}
    /\ Returned /\ Firing(last.call.features) # {} => last.sent = 0
    /\ last.llm.kind \in {"raised", "content", "cancelled"} =>
           last.sent = 1 /\ Firing(last.call.features) = {}
    /\ requests <= stats.gpt_calls
    /\ requests + stats.fast_rules <= stats.total

\* a call whose one completion request failed has returned, after another
\* call was settled by a fast rule
C4_Witness ==
    /\ Returned
    /\ last.llm.kind = "raised"
    /\ last.sent = 1
    /\ stats.fast_rules >= 1
    /\ requests = stats.gpt_calls

\* C5: apply_fast_rules returns the verdict and the confidence of the
\* lowest-numbered rule of the table whose condition holds, and the null
\* verdict with the null confidence exactly when no condition holds.
C5_RuleTable ==
    probe.pc = "done" =>
        LET f == probe.features
            r == probe.result
        IN  IF Firing(f) = {}
            THEN r.is_spam = PyNone /\ r.confidence = PyNone
            ELSE /\ r.is_spam = Bool(TableVerdict[FirstFiring(f)].spam)
                 /\ r.confidence = Num(TableVerdict[FirstFiring(f)].confidence)

\* a record on which rules 1 and 2 both hold was given rule 1's verdict
C5_Witness ==
    /\ probe.pc = "done"
    /\ {1, 2} \subseteq Firing(probe.features)
    /\ probe.result.is_spam = Bool(FALSE)
    /\ probe.result.confidence = Num(100)

\* the subject of the last call carries a DMARC marker
DmarcSubject ==
    \/ Contains(Lower(last.call.subject), <<"r", "e", "p", "o", "r", "t", " ", "d", "o", "m", "a", "i", "n", ":">>)
    \/ Contains(Lower(last.call.subject), <<"d", "m", "a", "r", "c">>)

C7_MutuallyExclusive ==
    probe.pc = "done" => Cardinality(CodeFiring(probe.features)) <= 1

\* C7, amended: the condition of rule 4 excludes those of rules 2, 3 and 5;
\* these are the only pairs of conditions that cannot hold together.
C7_Rule4Exclusive ==
    probe.pc = "done" =>
        \A j \in {2, 3, 5} : ~({4, j} \subseteq CodeFiring(probe.features))

\* rules 2 and 3 hold of the same record, and rule 2's verdict was returned
C7_Witness ==
    /\ probe.pc = "done"
    /\ {2, 3} \subseteq CodeFiring(probe.features)
    /\ ~(1 \in CodeFiring(probe.features))
    /\ probe.result.confidence = Num(95)

\* C8: on a detector without a client, a call whose features satisfy no
\* fast rule returns not-spam, confidence 0.5, method fallback, and no
\* completion request is ever submitted.
C8_NoClientFallback ==
    openai_client = "none" =>
        /\ requests = 0
        /\ inflight = EmptyBag
        /\ Returned /\ Firing(last.call.features) = {} =>
               /\ last.result.is_spam = Bool(FALSE)
               /\ last.result.confidence = Num(50)
               /\ last.result.method = Str("fallback")
               /\ last.sent = 0

\* a call with 3 links and 1 keyword returned on a detector without client
C8_Witness ==
    /\ openai_client = "none"
    /\ Returned
    /\ last.call.features.url_count = 3
    /\ last.call.features.spam_keyword_count = 1
    /\ last.result.method = Str("fallback")

\* the content of the last call's completion is not valid JSON
InvalidJson == last.llm.kind = "content" /\ last.llm.content.kind = "invalid"

\* C9: when the completion call raises, or its content is not valid JSON,
\* the call returns not-spam, confidence 0.5, method error, with the error
\* text in reason; the exception does not leave detect.
C9_ErrorVerdict ==
    last.llm.kind = "raised" \/ InvalidJson =>
        /\ Returned
        /\ last.result.is_spam = Bool(FALSE)
        /\ last.result.confidence = Num(50)
        /\ last.result.method = Str("error")
        /\ last.result.reason.pre = "Erro GPT: "
        /\ last.result.reason.s # ""
        /\ last.llm.kind = "raised" => last.result.reason.s = last.llm.err

\* the completion call of the last call timed out
C9_Witness ==
    /\ Returned
    /\ last.llm.kind = "raised"
    /\ last.llm.err = "Request timed out."
    /\ last.result.reason = Fmt("Erro GPT: ", "Request timed out.")

\* C10: when the completion's content is a JSON object, detect returns its
\* is_spam, confidence, reason and category unchanged, with method gpt and
\* the features computed for the call attached.
C10_GptPassThrough ==
    Returned /\ last.llm.kind = "content" /\ last.llm.content.kind = "object" =>
        /\ last.result.is_spam = last.llm.content.obj.is_spam
        /\ last.result.confidence = last.llm.content.obj.confidence
        /\ last.result.reason = last.llm.content.obj.reason
        /\ last.result.category = last.llm.content.obj.category
        /\ last.result.method = Str("gpt")
        /\ last.result.features = ExtractFeatures(last.call.body, last.call.subject)

\* the object of the specification's scenario C came back on a body with
\* 3 links, 1 image and 1 keyword
C10_Witness ==
    /\ Returned
    /\ last.llm.kind = "content"
    /\ last.result.is_spam = Bool(TRUE)
    /\ last.result.confidence = Num(80)
    /\ last.result.category = Str("marketing")
    /\ last.result.method = Str("gpt")
    /\ last.result.features.url_count = 3
    /\ last.result.features.img_count = 1

\* C11: every verdict detect returns, by a fast rule or by the LLM pass, has
\* a confidence that is a number inside [0, 1].
C11_ConfidenceInUnitRange ==
    Returned =>
        /\ last.result.confidence.tag = "num"
        /\ last.result.confidence.n \in 0..100

\* every call that ended returned a verdict
NoneLeftOpen == inflight = EmptyBag /\ hist.cancelled = 0

\* C12: the method of every returned verdict is fast_rule, gpt, fallback or
\* error; once the calls made have completed, fast_rules is the number of
\* verdicts returned with method fast_rule and gpt_calls the number of
\* verdicts returned with method gpt, fallback or error.
C12_CountersAgreeWithMethods ==
    /\ Returned => last.result.method \in {Str("fast_rule")} \cup LlmMethods
    /\ hist.returned = hist.fast_rule + hist.llm_pass
    /\ NoneLeftOpen =>
           /\ stats.fast_rules = hist.fast_rule
           /\ stats.gpt_calls = hist.llm_pass

\* one verdict by a fast rule and two by the LLM pass, the last of them an
\* answer of the model that named its own method
C12_Witness ==
    /\ NoneLeftOpen
    /\ hist.fast_rule = 1
    /\ hist.llm_pass = 2
    /\ Returned
    /\ last.llm.kind = "content"
    /\ last.llm.content.obj.method = Str("error")
    /\ last.result.method = Str("gpt")

\* a value of the report is zero: the number 0 or the amount $0.0000
IsZero(v) == v = Num(0) \/ v = Money(0)

\* get_stats has just returned
Reported == report # NoReport

\* C13: get_stats on a detector that has counted no call returns the two
\* percentages, the savings percentage and the three costs, each with
\* value zero.
C13_FreshStatsAllZero ==
    Reported /\ stats.total = 0 =>
        /\ IsZero(report.fast_rules_pct)
        /\ IsZero(report.gpt_calls_pct)
        /\ IsZero(report.estimated_savings_pct)
        /\ IsZero(report.cost_without_optimization)
        /\ IsZero(report.cost_with_two_pass)
        /\ IsZero(report.savings)

\* C14: for total > 0 get_stats reports the baseline cost unit * total, the
\* two-pass cost unit * gpt_calls and the savings percentage
\* 100 * (total - gpt_calls) / total; the savings percentage equals the
\* fast-rule percentage, and the fast-rule and gpt percentages add up to 100.
C14_CostModel ==
    Reported /\ stats.total > 0 =>
        /\ report.cost_without_optimization = Money(UnitCost * stats.total)
        /\ report.cost_with_two_pass = Money(UnitCost * stats.gpt_calls)
        /\ report.estimated_savings_pct = Num(Round1(stats.total - stats.gpt_calls, stats.total))
        /\ report.estimated_savings_pct = report.fast_rules_pct
        /\ report.fast_rules_pct.n + report.gpt_calls_pct.n = 100 * 100

\* C15: no step decreases total, fast_rules or gpt_calls, whatever the
\* outcome of the detect call it belongs to, and a get_stats call leaves
\* all three as they are.
C15_CountersMonotonic ==
    [][/\ stats'.total >= stats.total
       /\ stats'.fast_rules >= stats.fast_rules
       /\ stats'.gpt_calls >= stats.gpt_calls
       /\ (report' # NoReport => stats' = stats)]_vars

\* get_stats has returned after three calls, of which one returned, one
\* raised and one was cancelled
C15_Witness ==
    /\ Reported
    /\ stats.total = 3
    /\ hist.returned = 1
    /\ hist.raised = 1
    /\ hist.cancelled = 1

\* C16: with detect calls interleaving at the completion await, in every
\* state where a call is suspended at the await, has returned or was
\* cancelled there, total = fast_rules + gpt_calls; and once every call
\* made has ended, total is the number of calls made.
C16_NoLostIncrement ==
    /\ (inflight # EmptyBag \/ hist.returned > 0 \/ hist.cancelled > 0) =>
           stats.total = stats.fast_rules + stats.gpt_calls
    /\ inflight = EmptyBag =>
           stats.total = hist.returned + hist.raised + hist.cancelled

\* C17: a verdict returned for a message with more than 15 links and more
\* than 2 tracking pixels, the subject without DMARC marker, is spam with
\* confidence 0.95 and method fast_rule, and the call has submitted no
\* completion request.
C17_MassMailSignature ==
    (/\ Returned
     /\ last.call.features.url_count > 15
     /\ last.call.features.tracking_pixel_count > 2
     /\ ~DmarcSubject) =>
        /\ last.result.is_spam = Bool(TRUE)
        /\ last.result.confidence = Num(95)
        /\ last.result.method = Str("fast_rule")
        /\ last.llm.kind = "not_called"
        /\ last.sent = 0

\* the message of 16 links and 3 one-by-one images came back under a
\* subject that rule 6 matches, on a detector that has a client
C17_Witness ==
    /\ Returned
    /\ openai_client = "client"
    /\ last.call.features.url_count = 16
    /\ last.call.features.tracking_pixel_count = 3
    /\ last.call.subject = <<"C", "V", " ", "A", "n", "a">>
    /\ last.result.confidence = Num(95)
    /\ requests = 0

AmbiguousEmail ==
    /\ last.call.subject = <<"P", "r", "o", "p", "o", "s", "t", "a", " ", "d", "e", " ", "p", "a", "r", "c", "e", "r", "i", "a">>
    /\ last.call.body = Body(<<>>, <<>>, TxtPlain, 98)

\* C19: the e-mail "Proposta de parceria" with a plain text, no link, no
\* image and no spam keyword, is not settled by a fast rule: its verdict
\* comes from the LLM pass, which gpt_calls has counted.
C19_AmbiguousUsesGpt ==
    Returned /\ AmbiguousEmail =>
        /\ last.result.method # Str("fast_rule")
        /\ stats.gpt_calls > 0

\* the subject of the last call names a résumé
CvSubject ==
    \/ Contains(Lower(last.call.subject), <<"c", "u", "r", "r", "í", "c", "u", "l", "o">>)
    \/ Contains(Lower(last.call.subject), <<"c", "u", "r", "r", "i", "c", "u", "l", "o">>)
    \/ Contains(Lower(last.call.subject), <<"c", "v", " ">>)

\* C20: a verdict returned for a subject that names a résumé and carries
\* no DMARC marker is spam with method fast_rule, whatever the body, a
\* plain text without links included.
C20_ResumeIsFastRuleSpam ==
    Returned /\ CvSubject /\ ~DmarcSubject =>
        /\ last.result.is_spam = Bool(TRUE)
        /\ last.result.method = Str("fast_rule")

EmptyBody == Body(<<>>, <<>>, <<>>, 0)

\* C23: a detect call on the empty body returns; its features have every
\* count 0 and both ratios 0 / max(0, 1); when the subject matches neither
\* rule 1 nor rule 6 the verdict is not-spam, 0.90, by a fast rule.
C23_EmptyBody ==
    last.outcome # "none" /\ last.call.body = EmptyBody =>
        /\ Returned
        /\ last.call.features.url_count = 0
        /\ last.call.features.img_count = 0
        /\ last.call.features.unique_domains = 0
        /\ last.call.features.tracking_pixel_count = 0
        /\ last.call.features.spam_keyword_count = 0
        /\ last.call.features.exclamation_count = 0
        /\ last.call.features.html_text_ratio = [num |-> 0, den |-> 1]
        /\ last.call.features.caps_ratio = [num |-> 0, den |-> 1]
        /\ last.call.features.text_preview = <<>>
        /\ (~DmarcSubject /\ ~CvSubject =>
               /\ last.result.is_spam = Bool(FALSE)
               /\ last.result.confidence = Num(90)
               /\ last.result.method = Str("fast_rule"))

\* the empty body came back under the subject "Proposta de parceria"
C23_Witness ==
    /\ Returned
    /\ last.call.body = EmptyBody
    /\ last.call.subject = <<"P", "r", "o", "p", "o", "s", "t", "a", " ", "d", "e", " ", "p", "a", "r", "c", "e", "r", "i", "a">>
    /\ last.result.confidence = Num(90)
    /\ last.result.features.html_text_ratio.den = 1

\* The number an attribute value stands for once every character that is
\* no digit is removed, 0 when nothing is left.
DigitValue(c) == CHOOSE d \in 0..9 : <<"0", "1", "2", "3", "4", "5", "6", "7", "8", "9">>[d + 1] = c

RECURSIVE DigitsValue(_, _)
DigitsValue(runs, acc) ==
    IF runs = <<>> THEN acc
    ELSE LET c == Head(runs)[1]
             n == Head(runs)[2]
         IN  IF n = 0 \/ c \notin DigitChars THEN DigitsValue(Tail(runs), acc)
             ELSE DigitsValue(<<<<c, n - 1>>>> \o Tail(runs), 10 * acc + DigitValue(c))

\* a missing attribute counts as 0
DimensionValue(attr) == IF attr.present THEN DigitsValue(attr.value, 0) ELSE 0

\* the images of a body that are tracking pixels by the rule of the contract
PixelsByContract(body) ==
    LET RECURSIVE Sum(_)
        Sum(i) == IF i > Len(body.imgs) THEN 0
                  ELSE (IF /\ DimensionValue(body.imgs[i].width) <= 1
                           /\ DimensionValue(body.imgs[i].height) <= 1
                        THEN body.imgs[i].n ELSE 0) + Sum(i + 1)
    IN  Sum(1)

DimensionlessImage == Body(<<>>, <<Imgs(NoAttr, NoAttr, 1)>>, TxtCv, 120)

\* C24: the images extract_features counts as tracking pixels are those
\* whose width and height, non-digits removed and a missing or empty value
\* taken as 0, are both <= 1; an image without width and height is one, and
\* a message of one such image, no link and no keyword fails rule 4.
C24_TrackingPixel ==
    extraction.first.outcome = "returned" =>
        /\ extraction.first.features.tracking_pixel_count = PixelsByContract(extraction.body)
        /\ (extraction.body = DimensionlessImage =>
               /\ extraction.first.features.url_count = 0
               /\ extraction.first.features.spam_keyword_count = 0
               /\ extraction.first.features.tracking_pixel_count = 1
               /\ ~Rule4(extraction.first.features)
               /\ extraction.first.rule.confidence # Num(90))

\* the message of one image without dimensions was extracted and no fast
\* rule settled it
C24_Witness ==
    /\ extraction.first.outcome = "returned"
    /\ extraction.body = DimensionlessImage
    /\ extraction.subject = <<>>
    /\ extraction.first.features.tracking_pixel_count = 1
    /\ extraction.first.rule.is_spam = PyNone

\* C27: in every record extract_features returns, the tracking pixels are
\* at most the images, the unique domains at most the links, the keywords
\* found at most 16, and the preview at most 200 characters long.
C27_FeatureBounds ==
    extraction.first.outcome = "returned" =>
        LET f == extraction.first.features
        IN  /\ 0 <= f.tracking_pixel_count /\ f.tracking_pixel_count <= f.img_count
            /\ 0 <= f.unique_domains /\ f.unique_domains <= f.url_count
            /\ 0 <= f.spam_keyword_count /\ f.spam_keyword_count <= 16
            /\ StrLen(f.text_preview) <= 200

\* a text of 250 characters that repeats one keyword 25 times, with 3 links
\* to 2 hosts and 2 images of which 1 is a tracking pixel
C27_Witness ==
    /\ extraction.first.outcome = "returned"
    /\ StrLen(extraction.body.text) = 250
    /\ StrLen(extraction.first.features.text_preview) = 200
    /\ extraction.first.features.spam_keyword_count = 1
    /\ extraction.first.features.tracking_pixel_count = 1
    /\ extraction.first.features.img_count = 2
    /\ extraction.first.features.unique_domains = 2
    /\ extraction.first.features.url_count = 3

\* the requests the webhook application has received
Served == { web.served[i] : i \in 1..Len(web.served) }

\* an InboundMessage payload whose messageType is none of the e-mail names
NotAnEmail(payload) ==
    /\ payload.json = "object"
    /\ \/ payload.messageType.json # "string"
       \/ Upper(payload.messageType.str) \notin EmailChannels

\* the route handler has run to its end on the request
Handled(e) == e.reached /\ e.pc = "done"

\* C21: when the handler has run on an InboundMessage whose messageType is
\* none of EMAIL, TYPE_EMAIL, MAIL in any case, detect was not called, the
\* counters count the other requests only, no sample was saved,
\* delete_contact was not called, and the answer is 200 ok.
C21_NonEmailNotAnalysed ==
    /\ stats.total = Cardinality({i \in 1..Len(web.served) : web.served[i].detected})
    /\ \A e \in Served :
           e.req.route = "InboundMessage" /\ Handled(e) /\ NotAnEmail(e.req.payload) =>
               /\ ~e.detected
               /\ ~e.saved
               /\ e.delete = "no"
               /\ e.status = 200 /\ e.answer = "ok"

\* detect raised, the LLM call failed, or no detector is there
DetectionFailed(e) ==
    \/ e.detected /\ e.detection_method = Str("none")
    \/ e.detection_method \in {Str("error"), Str("fallback")}
    \/ web.spam_detector = "none"

\* C25: save_spam_email and delete_contact are called only after detect
\* returned a verdict that marks the e-mail as spam; an e-mail on which
\* detect raised or the LLM call failed, or that found no detector, is
\* answered 200 ok with no sample saved and no contact deleted.
C25_FailOpen ==
    \A e \in Served :
        /\ e.saved \/ e.delete # "no" =>
               /\ e.detected
               /\ e.detection_method \in {Str("fast_rule"), Str("gpt")}
               /\ e.is_spam = Bool(TRUE)
        /\ e.req.route = "InboundMessage" /\ Handled(e) /\ ~HandlerRaises(e.req.payload)
              /\ IsEmail(e.req.payload) /\ DetectionFailed(e) =>
               /\ ~e.saved
               /\ e.delete = "no"
               /\ e.status = 200 /\ e.answer = "ok"

\* C26: save_spam_email and delete_contact are called only for a verdict
\* whose is_spam is the boolean true.
C26_DeletesOnBooleanTrueOnly ==
    \A e \in Served : e.saved \/ e.delete # "no" => e.is_spam = Bool(TRUE)

\* the request went through the idempotency middleware with a key
Keyed(e) == e.idem \in {"recorded", "duplicate"}

\* two requests with one key, checked with no expiry of the key in between
SameDelivery(a, b) ==
    /\ Keyed(a) /\ Keyed(b)
    /\ IdempotencyKey(a.req) = IdempotencyKey(b.req)
    /\ a.epoch = b.epoch

Rejected(e) == e.pc = "done" /\ e.idem = "none" /\ ~e.reached

\* the request has no signature, or one that is not the HMAC of its body
BadSignature(e) == e.req.signature \notin {"mac", "sha256=mac"}

\* C29 as stated: with WEBHOOK_SECRET set, a request without a signature or
\* with an invalid one is answered 401 once the middleware has read it, and
\* it records no key, reaches no handler, detect does not run for it;
\* raw_body is set only on requests whose signature matched.
C29_BadSignatureIs401 ==
    \A e \in Served :
        /\ web.env.WEBHOOK_SECRET /\ BadSignature(e) /\ e.pc # "signature_read" =>
               /\ Rejected(e)
               /\ ~e.detected
               /\ e.status = 401
        /\ e.raw_body =>
               SignatureMatches(web.env.WEBHOOK_SIGNATURE_ALGO, e.req.signature)

\* C29 amended: the answer is 401, or 400 when WEBHOOK_SIGNATURE_ALGO names
\* an algorithm other than sha256 and sha1 and the request has a signature.
C29_BadSignatureRejected ==
    \A e \in Served :
        /\ web.env.WEBHOOK_SECRET /\ BadSignature(e) /\ e.pc # "signature_read" =>
               /\ Rejected(e)
               /\ ~e.detected
               /\ e.status = (IF /\ e.req.signature # ""
                                 /\ web.env.WEBHOOK_SIGNATURE_ALGO \notin {"sha256", "sha1"}
                              THEN 400 ELSE 401)
        /\ e.raw_body =>
               SignatureMatches(web.env.WEBHOOK_SIGNATURE_ALGO, e.req.signature)

\* under a secret, one request was turned away for its signature while
\* another with the same key went through with raw_body set and was analysed
C29_Witness ==
    \E a, b \in Served :
        /\ web.env.WEBHOOK_SECRET
        /\ a.req.signature = "bad" /\ a.status = 401 /\ Rejected(a)
        /\ IdempotencyKey(a.req) = IdempotencyKey(b.req)
        /\ b.raw_body /\ b.idem = "recorded" /\ b.detected

\* start-up found no API key, or the connection test failed
NoOpenai(env) == ~env.OPENAI_API_KEY \/ env.models = "raises"

\* C30: after a start-up without API key or with a failing connection test
\* there is no detector at any time; an e-mail is answered 200 as not spam,
\* detect is not called, nothing is counted, saved or deleted, and
\* spam-stats answers 503. A detector that exists has a client.
C30_NoDetectorWithoutOpenai ==
    /\ web.spam_detector = "detector" => openai_client = "client"
    /\ web.phase = "serving" /\ NoOpenai(web.env) =>
           /\ web.spam_detector = "none"
           /\ stats = [total |-> 0, fast_rules |-> 0, gpt_calls |-> 0]
           /\ \A e \in Served :
                  /\ ~e.detected /\ ~e.saved /\ e.delete = "no"
                  /\ e.req.route = "InboundMessage" /\ Handled(e)
                        /\ ~HandlerRaises(e.req.payload) =>
                         e.status = 200 /\ e.answer = "ok" /\ e.is_spam = Bool(FALSE)
                  /\ e.req.route = "spam-stats" /\ Handled(e) => e.status = 503

\* without API key, an e-mail that the fast rules would call spam was
\* answered 200 and spam-stats 503
C30_Witness ==
    \E a, b \in Served :
        /\ NoOpenai(web.env)
        /\ a.req.payload = PSpam /\ Handled(a) /\ a.status = 200
        /\ b.req.route = "spam-stats" /\ b.status = 503

====
